---- MODULE Spec2Model ----
(***************************************************************************)
(* Team dependency graph engine of SparksAI-Reports: the page component     *)
(* TeamDependencyGraphPage in its version with the hierarchical and the     *)
(* circular tab (src/unnamed/part_010).                                     *)
(*                                                                          *)
(* A render of the page computes, in this order, the memoised values        *)
(*   teamDependencies -> uniqueTeams -> teamConnectionCounts -> edges       *)
(* from the two fetched collections outboundData and inboundData.  Each     *)
(* memo is one action of the model; the inputs are drawn in Init.           *)
(*                                                                          *)
(* ViewSpec is the page as the user drives it: the PI filter, fetchData     *)
(* with its two requests, Retry, the two tabs and the drag of a node.  Each *)
(* of its actions is one handler or one settled request followed by the     *)
(* whole render React commits for it.                                       *)
(*                                                                          *)
(* LayoutSpec runs the layouts and the edges memo on their own, on node     *)
(* lists and aggregated dependencies drawn in its initial states.  The      *)
(* circular positions are computed exactly, as numbers a + b * sqrt(3).     *)
(*                                                                          *)
(* JavaScript strings are sequences of one-character strings, so that the   *)
(* string keys the code builds (`${from}->${to}`, sort().join('|||')) and   *)
(* takes apart again (split('->')) are computed, not assumed.               *)
(***************************************************************************)
EXTENDS Integers, Sequences, FiniteSets, TLC

VARIABLES
    outboundData,          \* useState: records of the outbound endpoint
    inboundData,           \* useState: records of the inbound endpoint
    stage,                 \* which memo of the render is computed next
    raised,                \* TRUE when the render threw a TypeError
    dependencyMap,         \* the accumulator of transformApiDataToTeamDependencies at its end
    teamDependencies,      \* useMemo teamDependencies
    uniqueTeams,           \* useMemo uniqueTeams
    teamConnectionCounts,  \* useMemo teamConnectionCounts
    top3Teams,             \* useMemo top3Teams
    initialNodesBeforeLayout, \* useMemo initialNodesBeforeLayout
    edges,                 \* useMemo edges
    loading,               \* useState loading
    error,                 \* useState error: Null or the message
    selectedPI,            \* useState selectedPI
    piInput,               \* useState piInput
    activeTab,             \* useState activeTab
    edgesForLayout,        \* useMemo edgesForLayout
    hierarchicalNodes,     \* hierarchicalLayoutResult.nodes
    circularNodes,         \* useMemo circularNodes
    nodes,                 \* useState nodes: the nodes ReactFlow displays
    fetches,               \* the calls of fetchData that wait at `await Promise.all`
    settled,               \* history: how the last two calls of fetchData ended
    firstRun               \* history: the first graph computed from fetched data

\* the state of the page besides the fetched collections and their memos
viewVars == <<loading, error, selectedPI, piInput, activeTab, edgesForLayout,
              hierarchicalNodes, circularNodes, nodes, fetches, settled,
              firstRun>>

vars == <<outboundData, inboundData, stage, raised, dependencyMap,
          teamDependencies, uniqueTeams, teamConnectionCounts, top3Teams,
          initialNodesBeforeLayout, edges, viewVars>>

----------------------------------------------------------------------------
(* JavaScript values *)

\* null / undefined where a string is expected; no team name holds this token
Null == <<"null">>
EmptyString == <<>>

\* JS truthiness of a string-or-null value
Truthy(s) == s # Null /\ s # EmptyString

\* UTF-16 code units of the characters that occur in the modelled names
CharCode(c) == CASE c = "-" -> 45
                 [] c = ">" -> 62
                 [] c = "A" -> 65
                 [] c = "B" -> 66
                 [] c = "C" -> 67
                 [] c = "D" -> 68
                 [] c = "|" -> 124

\* a < b in the order Array.prototype.sort() uses without a comparator
RECURSIVE StringLess(_, _)
StringLess(a, b) ==
    IF a = <<>> THEN b # <<>>
    ELSE IF b = <<>> THEN FALSE
    ELSE IF Head(a) = Head(b) THEN StringLess(Tail(a), Tail(b))
    ELSE CharCode(Head(a)) < CharCode(Head(b))

\* an array-valued field: a real array, a missing field, or a non-array truthy value
ArrayValue(items) == [kind |-> "array", items |-> items]
UndefinedArray == [kind |-> "undefined", items |-> <<>>]
NotAnArray == [kind |-> "string", items |-> <<>>]

\* a number-valued field: a number or a missing field
NumberValue(n) == [kind |-> "number", value |-> n]
UndefinedNumber == [kind |-> "undefined", value |-> 0]

\* `x || 0` for a number-or-undefined field
OrZero(x) == IF x.kind = "number" THEN x.value ELSE 0

\* integer division in place of Math.round
MathFloor(d, n) == d \div n

\* Math.round(d / n) for integers d > 0, n > 0 (halves round up)
MathRound(d, n) == (2 * d + n) \div (2 * n)

\* Array.prototype.filter(team => team && team !== null)
RECURSIVE FilterTeams(_)
FilterTeams(arr) ==
    IF arr = <<>> THEN <<>>
    ELSE IF Truthy(Head(arr)) THEN <<Head(arr)>> \o FilterTeams(Tail(arr))
    ELSE FilterTeams(Tail(arr))

----------------------------------------------------------------------------
(* Map<string, number> with insertion order: a sequence of [key, value] *)

MapHas(m, k) == \E i \in 1..Len(m) : m[i].key = k

MapGet(m, k) == m[CHOOSE i \in 1..Len(m) : m[i].key = k].value

MapSet(m, k, v) ==
    IF MapHas(m, k)
    THEN [i \in 1..Len(m) |-> IF m[i].key = k THEN [key |-> k, value |-> v] ELSE m[i]]
    ELSE Append(m, [key |-> k, value |-> v])

\* `${fromTeam}->${toTeam}`
DepKey(fromTeam, toTeam) == fromTeam \o <<"-", ">">> \o toTeam

\* String.prototype.split('->')
RECURSIVE SplitArrow(_)
SplitArrow(s) ==
    IF \E i \in 1..(Len(s) - 1) : s[i] = "-" /\ s[i + 1] = ">"
    THEN LET i == CHOOSE j \in 1..(Len(s) - 1) :
                      /\ s[j] = "-" /\ s[j + 1] = ">"
                      /\ \A k \in 1..(j - 1) : ~(s[k] = "-" /\ s[k + 1] = ">")
         IN <<SubSeq(s, 1, i - 1)>> \o SplitArrow(SubSeq(s, i + 2, Len(s)))
    ELSE <<s>>

----------------------------------------------------------------------------
(* transformApiDataToTeamDependencies *)

\* countPerTeam without the default of 1: a zero count shares out zero
CountPerTeamNoDefault(relatedLength, magnitude) ==
    IF relatedLength > 0 /\ magnitude > 0
    THEN MathRound(magnitude, relatedLength)
    ELSE 0

\* countPerTeam of one record: the share each related team receives
CountPerTeam(relatedLength, magnitude) ==
    IF relatedLength > 0 /\ magnitude > 0
    THEN MathRound(magnitude, relatedLength)
    ELSE 1

\* AddCount that overwrites the count instead of adding to it
AddCountOverwrite(map, depKey, countPerTeam) == MapSet(map, depKey, countPerTeam)

\* dependencyMap.set(depKey, (dependencyMap.get(depKey) || 0) + countPerTeam)
AddCount(map, depKey, countPerTeam) ==
    MapSet(map, depKey, (IF MapHas(map, depKey) THEN MapGet(map, depKey) ELSE 0) + countPerTeam)

\* OutboundInner without the `toTeam !== fromTeam` test
RECURSIVE OutboundInnerSelf(_, _, _, _)
OutboundInnerSelf(map, fromTeam, teams, countPerTeam) ==
    IF teams = <<>> THEN map
    ELSE OutboundInnerSelf(AddCount(map, DepKey(fromTeam, Head(teams)), countPerTeam),
                           fromTeam, Tail(teams), countPerTeam)

\* relyingOnTeams.forEach(toTeam => ...) of the outbound loop
RECURSIVE OutboundInner(_, _, _, _)
OutboundInner(map, fromTeam, teams, countPerTeam) ==
    IF teams = <<>> THEN map
    ELSE LET toTeam == Head(teams)
             next == IF Truthy(toTeam) /\ toTeam # fromTeam
                     THEN AddCount(map, DepKey(fromTeam, toTeam), countPerTeam)
                     ELSE map
         IN OutboundInner(next, fromTeam, Tail(teams), countPerTeam)

\* InboundInner with the owner as the source of the dependency
RECURSIVE InboundInnerSwapped(_, _, _, _)
InboundInnerSwapped(map, toTeam, teams, countPerTeam) ==
    IF teams = <<>> THEN map
    ELSE LET fromTeam == Head(teams)
             next == IF Truthy(fromTeam) /\ fromTeam # toTeam
                     THEN AddCount(map, DepKey(toTeam, fromTeam), countPerTeam)
                     ELSE map
         IN InboundInnerSwapped(next, toTeam, Tail(teams), countPerTeam)

\* relyingTeams.forEach(fromTeam => ...) of the inbound loop
RECURSIVE InboundInner(_, _, _, _)
InboundInner(map, toTeam, teams, countPerTeam) ==
    IF teams = <<>> THEN map
    ELSE LET fromTeam == Head(teams)
             next == IF Truthy(fromTeam) /\ fromTeam # toTeam
                     THEN AddCount(map, DepKey(fromTeam, toTeam), countPerTeam)
                     ELSE map
         IN InboundInner(next, toTeam, Tail(teams), countPerTeam)

\* the body of outboundData.forEach for one item
OutboundItem(map, item) ==
    LET fromTeam == item.owned_team
        relyingOnTeams == FilterTeams(item.relying_on_teams_array.items)
        dependentIssues == OrZero(item.number_of_dependent_issues)
    IN IF ~Truthy(fromTeam) THEN map
       ELSE IF Len(relyingOnTeams) = 0 THEN map
       ELSE OutboundInner(map, fromTeam, relyingOnTeams,
                          CountPerTeam(Len(relyingOnTeams), dependentIssues))

\* the body of inboundData.forEach for one item
InboundItem(map, item) ==
    LET toTeam == item.assignee_team
        relyingTeams == FilterTeams(item.relying_teams_array.items)
        volume == OrZero(item.volume_of_work_relied_upon)
    IN IF ~Truthy(toTeam) THEN map
       ELSE IF Len(relyingTeams) = 0 THEN map
       ELSE InboundInner(map, toTeam, relyingTeams,
                         CountPerTeam(Len(relyingTeams), volume))

RECURSIVE OutboundLoop(_, _)
OutboundLoop(map, items) ==
    IF items = <<>> THEN map
    ELSE OutboundLoop(OutboundItem(map, Head(items)), Tail(items))

RECURSIVE InboundLoop(_, _)
InboundLoop(map, items) ==
    IF items = <<>> THEN map
    ELSE InboundLoop(InboundItem(map, Head(items)), Tail(items))

\* DependencyMapOf on a map that outlives the call instead of `new Map()`
DependencyMapOfLeaking(outbound, inbound) ==
    InboundLoop(OutboundLoop(dependencyMap, outbound), inbound)

\* the accumulator after both loops
DependencyMapOf(outbound, inbound) ==
    InboundLoop(OutboundLoop(<<>>, outbound), inbound)

\* dependencyMap.forEach((count, key) => ...): the map as an array of dependencies
RECURSIVE MapToDependencies(_)
MapToDependencies(map) ==
    IF map = <<>> THEN <<>>
    ELSE LET parts == SplitArrow(Head(map).key)
             rest == MapToDependencies(Tail(map))
         IN IF Len(parts) = 2 /\ parts[1] # EmptyString /\ parts[2] # EmptyString
            THEN <<[fromTeam |-> parts[1], toTeam |-> parts[2],
                    storyCount |-> Head(map).value]>> \o rest
            ELSE rest

\* (item.relying_on_teams_array || []).filter is not a function: the call throws
\* for a record whose owner is truthy and whose list is a truthy non-array
TransformThrows(outbound, inbound) ==
    \/ \E i \in 1..Len(outbound) :
          /\ Truthy(outbound[i].owned_team)
          /\ outbound[i].relying_on_teams_array.kind = "string"
    \/ \E i \in 1..Len(inbound) :
          /\ Truthy(inbound[i].assignee_team)
          /\ inbound[i].relying_teams_array.kind = "string"

transformApiDataToTeamDependencies(outbound, inbound) ==
    MapToDependencies(DependencyMapOf(outbound, inbound))

----------------------------------------------------------------------------
(* useMemo teamDependencies *)

TeamDependenciesMemo(outbound, inbound) ==
    IF Len(outbound) = 0 /\ Len(inbound) = 0
    THEN <<>>
    ELSE transformApiDataToTeamDependencies(outbound, inbound)

----------------------------------------------------------------------------
(* useMemo uniqueTeams *)

\* Array.from(new Set(arr)): the first occurrence of each element, in order
RECURSIVE Dedupe(_, _)
Dedupe(arr, seen) ==
    IF arr = <<>> THEN <<>>
    ELSE IF Head(arr) \in seen THEN Dedupe(Tail(arr), seen)
    ELSE <<Head(arr)>> \o Dedupe(Tail(arr), seen \cup {Head(arr)})

\* Array.prototype.filter(Boolean) on an array of strings
RECURSIVE FilterBoolean(_)
FilterBoolean(arr) ==
    IF arr = <<>> THEN <<>>
    ELSE IF Truthy(Head(arr)) THEN <<Head(arr)>> \o FilterBoolean(Tail(arr))
    ELSE FilterBoolean(Tail(arr))

UniqueTeamsMemo(deps) ==
    FilterBoolean(Dedupe([i \in 1..Len(deps) |-> deps[i].fromTeam]
                         \o [i \in 1..Len(deps) |-> deps[i].toTeam], {}))

----------------------------------------------------------------------------
(* useMemo teamConnectionCounts *)

\* uniqueTeams.forEach(team => counts.set(team, 0))
RECURSIVE InitCounts(_, _)
InitCounts(counts, teams) ==
    IF teams = <<>> THEN counts
    ELSE InitCounts(MapSet(counts, Head(teams), 0), Tail(teams))

\* SumVolumes that skips the items without a related team left after filtering
RECURSIVE SumVolumesNormalized(_, _)
SumVolumesNormalized(counts, items) ==
    IF items = <<>> THEN counts
    ELSE LET item == Head(items)
             team == item.assignee_team
             currentCount == IF MapHas(counts, team) THEN MapGet(counts, team) ELSE 0
             volume == OrZero(item.volume_of_work_relied_upon)
         IN SumVolumesNormalized(
                IF Truthy(team) /\ Len(FilterTeams(item.relying_teams_array.items)) > 0
                THEN MapSet(counts, team, currentCount + volume)
                ELSE counts,
                Tail(items))

\* inboundData.forEach(item => ...): add the item's volume to its assignee_team
RECURSIVE SumVolumes(_, _)
SumVolumes(counts, items) ==
    IF items = <<>> THEN counts
    ELSE LET item == Head(items)
             team == item.assignee_team
             currentCount == IF MapHas(counts, team) THEN MapGet(counts, team) ELSE 0
             volume == OrZero(item.volume_of_work_relied_upon)
         IN SumVolumes(IF Truthy(team) THEN MapSet(counts, team, currentCount + volume)
                       ELSE counts,
                       Tail(items))

TeamConnectionCountsMemo(inbound, teams) ==
    SumVolumes(InitCounts(<<>>, teams), inbound)

----------------------------------------------------------------------------
(* useMemo top3Teams and useMemo initialNodesBeforeLayout *)

\* one step of the stable sort by (a, b) => b[1] - a[1]: entry goes behind every
\* entry whose count is not smaller
RECURSIVE InsertByCount(_, _)
InsertByCount(sorted, entry) ==
    IF sorted = <<>> THEN <<entry>>
    ELSE IF Head(sorted).value >= entry.value
    THEN <<Head(sorted)>> \o InsertByCount(Tail(sorted), entry)
    ELSE <<entry>> \o sorted

\* Array.from(teamConnectionCounts.entries()).sort((a, b) => b[1] - a[1])
RECURSIVE SortByCount(_)
SortByCount(entries) ==
    IF entries = <<>> THEN <<>>
    ELSE InsertByCount(SortByCount(SubSeq(entries, 1, Len(entries) - 1)),
                       entries[Len(entries)])

\* .slice(0, 3).map(([team]) => team), as a Set
Top3TeamsMemo(counts) ==
    LET sorted == SortByCount(counts)
    IN {sorted[i].key : i \in 1..(IF Len(sorted) < 3 THEN Len(sorted) ELSE 3)}

\* one node of uniqueTeams.map(team => ...); the label is `${team} (${connectionCount})`
\* and the yellow style is that of isTop3
\* minWidth and fontSize are the style's '120px' and '16px'
\* InitialNode that starts from where the node is displayed: the displayed
\* positions feed back into the input of the layouts
InitialNodeFromDisplayed(team, counts, top3) ==
    [id |-> team,
     connectionCount |-> IF MapHas(counts, team) THEN MapGet(counts, team) ELSE 0,
     isTop3 |-> team \in top3,
     position |-> IF \E k \in 1..Len(nodes) : nodes[k].id = team
                  THEN (CHOOSE n \in {nodes[k] : k \in 1..Len(nodes)} : n.id = team).position
                  ELSE [x |-> 0, y |-> 0],
     minWidth |-> 120,
     fontSize |-> 16]

InitialNode(team, counts, top3) ==
    [id |-> team,
     connectionCount |-> IF MapHas(counts, team) THEN MapGet(counts, team) ELSE 0,
     isTop3 |-> team \in top3,
     position |-> [x |-> 0, y |-> 0],
     minWidth |-> 120,
     fontSize |-> 16]

InitialNodesBeforeLayoutMemo(teams, counts, top3) ==
    [i \in 1..Len(teams) |-> InitialNode(teams[i], counts, top3)]

----------------------------------------------------------------------------
(* useMemo edges: the bidirectional merger *)

ForwardStroke == <<"#", "3", "b", "8", "2", "f", "6">>
ReverseStroke == <<"#", "e", "f", "4", "4", "4", "4">>

\* [dep.fromTeam, dep.toTeam].sort().join('|||')
PairKey(fromTeam, toTeam) ==
    IF StringLess(toTeam, fromTeam)
    THEN toTeam \o <<"|", "|", "|">> \o fromTeam
    ELSE fromTeam \o <<"|", "|", "|">> \o toTeam

\* teamDependencies.find(d => d.fromTeam === dep.toTeam && d.toTeam === dep.fromTeam)
HasReverse(deps, dep) ==
    \E i \in 1..Len(deps) : deps[i].fromTeam = dep.toTeam /\ deps[i].toTeam = dep.fromTeam

FindReverse(deps, dep) ==
    deps[CHOOSE i \in 1..Len(deps) :
            /\ deps[i].fromTeam = dep.toTeam /\ deps[i].toTeam = dep.fromTeam
            /\ \A j \in 1..(i - 1) :
                  ~(deps[j].fromTeam = dep.toTeam /\ deps[j].toTeam = dep.fromTeam)]

\* first pass: teamDependencies.forEach(dep => ...) filling edgeMap
RECURSIVE FirstPass(_, _, _, _)
FirstPass(deps, rest, edgeMap, processedPairs) ==
    IF rest = <<>> THEN edgeMap
    ELSE LET dep == Head(rest)
             pairKey == PairKey(dep.fromTeam, dep.toTeam)
             key == DepKey(dep.fromTeam, dep.toTeam)
             counts == IF HasReverse(deps, dep)
                       THEN [forward |-> dep.storyCount,
                             reverse |-> NumberValue(FindReverse(deps, dep).storyCount)]
                       ELSE [forward |-> dep.storyCount, reverse |-> UndefinedNumber]
         IN IF pairKey \in processedPairs
            THEN FirstPass(deps, Tail(rest), edgeMap, processedPairs)
            ELSE FirstPass(deps, Tail(rest), MapSet(edgeMap, key, counts),
                           processedPairs \cup {pairKey})

\* `edge-${source}-${target}`
EdgeId(source, target) == <<"e", "d", "g", "e", "-">> \o source \o <<"-">> \o target

\* the stroke width without its upper limit
StrokeWidthTimes2Unlimited(count, tab) ==
    IF tab = "circular" THEN 6 ELSE 6 + count

\* Math.min(3 + count * 0.5, 8), in half pixels
StrokeWidthTimes2(count, tab) ==
    IF tab = "circular" THEN 6
    ELSE IF 6 + count < 16 THEN 6 + count ELSE 16

\* one pushed edge: label is the count of `${count} stories`, type the edgeType,
\* markerSize the width and height of markerEnd
CreatedEdge(source, target, count, stroke, tab) ==
    [id |-> EdgeId(source, target), source |-> source, target |-> target,
     label |-> count, stroke |-> stroke,
     type |-> IF tab = "circular" THEN "default" ELSE "smoothstep",
     strokeWidthTimes2 |-> StrokeWidthTimes2(count, tab),
     markerSize |-> IF tab = "circular" THEN 15 ELSE 20]

\* second pass: edgeMap.forEach((counts, key) => ...) filling createdEdges
RECURSIVE SecondPass(_, _)
SecondPass(edgeMap, tab) ==
    IF edgeMap = <<>> THEN <<>>
    ELSE LET parts == SplitArrow(Head(edgeMap).key)
             counts == Head(edgeMap).value
             rest == SecondPass(Tail(edgeMap), tab)
         IN IF Len(parts) # 2 THEN rest
            ELSE IF counts.reverse.kind = "number" /\ counts.reverse.value > 0
            THEN <<CreatedEdge(parts[1], parts[2], counts.forward, ForwardStroke, tab),
                   CreatedEdge(parts[2], parts[1], counts.reverse.value, ReverseStroke, tab)>>
                 \o rest
            ELSE <<CreatedEdge(parts[1], parts[2], counts.forward, ForwardStroke, tab)>>
                 \o rest

EdgesMemo(deps, tab) ==
    IF Len(deps) = 0 THEN <<>>
    ELSE SecondPass(FirstPass(deps, deps, <<>>, {}), tab)

----------------------------------------------------------------------------
(* useMemo edgesForLayout, getLayoutedElements, getCircularLayout and the *)
(* memos that call them                                                    *)

\* layoutEdges.push of edgeMap.forEach: one edge per key of two parts
RECURSIVE LayoutEdges(_)
LayoutEdges(edgeMap) ==
    IF edgeMap = <<>> THEN <<>>
    ELSE LET parts == SplitArrow(Head(edgeMap).key)
             rest == LayoutEdges(Tail(edgeMap))
         IN IF Len(parts) # 2 THEN rest
            ELSE <<[source |-> parts[1], target |-> parts[2]]>> \o rest

EdgesForLayoutMemo(deps) ==
    IF Len(deps) = 0 THEN <<>>
    ELSE LayoutEdges(FirstPass(deps, deps, <<>>, {}))

\* the length of String(n)
RECURSIVE NumberLength(_)
NumberLength(n) ==
    IF n < 0 THEN 1 + NumberLength(0 - n)
    ELSE IF n < 10 THEN 1
    ELSE 1 + NumberLength(n \div 10)

\* Math.max(150, labelLength * 10 + 40) for the label `${team} (${connectionCount})`
NodeWidth(node) ==
    LET labelLength == Len(node.id) + 3 + NumberLength(node.connectionCount)
        width == labelLength * 10 + 40
    IN IF width > 150 THEN width ELSE 150

\* the graph handed to dagre.layout: its settings, its nodes with their
\* dimensions and its edges, in the order they are set
DagreGraph(layoutNodes, layoutEdges) ==
    [rankdir |-> "TB", nodesep |-> 100, ranksep |-> 150, marginx |-> 50, marginy |-> 50,
     nodes |-> [i \in 1..Len(layoutNodes) |->
                  [id |-> layoutNodes[i].id, width |-> NodeWidth(layoutNodes[i]), height |-> 70]],
     edges |-> layoutEdges]

\* getLayoutedElements that builds its result back to front: the positioned
\* nodes are not in the order of the argument
getLayoutedElementsInGraphOrder(layoutNodes, layoutEdges) ==
    LET n == Len(layoutNodes)
    IN [i \in 1..n |->
          [layoutNodes[n + 1 - i] EXCEPT
              !.position = [dagre |-> DagreGraph(layoutNodes, layoutEdges),
                            node |-> layoutNodes[n + 1 - i].id]]]

\* the nodes at the top left corner dagre.layout computes for them: dagre is a
\* library, the position is kept as the graph laid out and the node asked for
getLayoutedElements(layoutNodes, layoutEdges) ==
    [i \in 1..Len(layoutNodes) |->
        [layoutNodes[i] EXCEPT
            !.position = [dagre |-> DagreGraph(layoutNodes, layoutEdges),
                          node |-> layoutNodes[i].id]]]

\* Angles are counted in twelfths of a full turn (Math.PI / 6), which is exact
\* for the node counts that divide 12; a number a + b * sqrt(3) is kept as its
\* two integer coefficients.
TwoPi == 12
HalfPi == 3

\* Math.cos and Math.sin of an angle, in halves: [int |-> a, root3 |-> b] is
\* (a + b * sqrt(3)) / 2
MathCos(angle) ==
    LET k == ((angle % TwoPi) + TwoPi) % TwoPi
    IN CASE k = 0 -> [int |-> 2, root3 |-> 0]
         [] k \in {1, 11} -> [int |-> 0, root3 |-> 1]
         [] k \in {2, 10} -> [int |-> 1, root3 |-> 0]
         [] k \in {3, 9} -> [int |-> 0, root3 |-> 0]
         [] k \in {4, 8} -> [int |-> 0 - 1, root3 |-> 0]
         [] k \in {5, 7} -> [int |-> 0, root3 |-> 0 - 1]
         [] k = 6 -> [int |-> 0 - 2, root3 |-> 0]

MathSin(angle) == MathCos(angle - HalfPi)

\* (2 * Math.PI) / nodes.length
AngleStep(count) == CASE TwoPi % count = 0 -> TwoPi \div count

\* CircularPosition without the quarter turn back: node 0 is at the right
CircularPositionFromRight(index, count) ==
    LET angle == index * AngleStep(count)
    IN [x |-> 600 + (280 * MathCos(angle).int) \div 2 - 50,
        xRoot3 |-> (280 * MathCos(angle).root3) \div 2,
        y |-> 400 + (280 * MathSin(angle).int) \div 2 - 25,
        yRoot3 |-> (280 * MathSin(angle).root3) \div 2]

\* the position of node index of count nodes: the corner of a box of 100 x 50
\* whose centre is on the circle of radius Math.min(1200, 800) * 0.35 = 280
\* around (600, 400), at the angle index * angleStep - Math.PI / 2
CircularPosition(index, count) ==
    LET centerX == 1200 \div 2
        centerY == 800 \div 2
        radius == 280
        angle == index * AngleStep(count) - HalfPi
        smallerWidth == 100
        smallerHeight == 50
    IN [x |-> centerX + (radius * MathCos(angle).int) \div 2 - smallerWidth \div 2,
        xRoot3 |-> (radius * MathCos(angle).root3) \div 2,
        y |-> centerY + (radius * MathSin(angle).int) \div 2 - smallerHeight \div 2,
        yRoot3 |-> (radius * MathSin(angle).root3) \div 2]

\* getCircularLayout whose style does not spread node.style: the yellow of the
\* top 3 is lost
getCircularLayoutPlain(layoutNodes) ==
    IF Len(layoutNodes) = 0 THEN layoutNodes
    ELSE [i \in 1..Len(layoutNodes) |->
            [layoutNodes[i] EXCEPT
                !.position = CircularPosition(i - 1, Len(layoutNodes)),
                !.isTop3 = FALSE,
                !.minWidth = 100,
                !.fontSize = 14]]

\* nodes.map((node, index) => ...): the node with its position on the circle and
\* the smaller style
getCircularLayout(layoutNodes) ==
    IF Len(layoutNodes) = 0 THEN layoutNodes
    ELSE [i \in 1..Len(layoutNodes) |->
            [layoutNodes[i] EXCEPT
                !.position = CircularPosition(i - 1, Len(layoutNodes)),
                !.minWidth = 100,
                !.fontSize = 14]]

\* hierarchicalLayoutResult.nodes
HierarchicalNodesMemo(initial, layoutEdges) ==
    IF Len(initial) = 0 \/ Len(layoutEdges) = 0 THEN initial
    ELSE getLayoutedElements(initial, layoutEdges)

\* circularNodes that puts the nodes with the most connections first
CircularNodesMemoByWeight(initial) ==
    IF Len(initial) = 0 THEN initial
    ELSE LET sorted == SortByCount([i \in 1..Len(initial) |->
                          [key |-> i, value |-> initial[i].connectionCount]])
         IN getCircularLayout([i \in 1..Len(initial) |-> initial[sorted[i].key]])

CircularNodesMemo(initial) ==
    IF Len(initial) = 0 THEN initial
    ELSE getCircularLayout(initial)

LayoutedNodesMemo(tab, hierarchical, circular) ==
    IF tab = "hierarchical" THEN hierarchical ELSE circular

----------------------------------------------------------------------------
(* The fetched collections the model is checked on *)

MaxRelated == 2     \* longest related-team array of a record of RichOutbound / RichInbound
MaxMagnitude == 4   \* largest count of a record of RichOutbound / RichInbound
MaxRecords == 3     \* most records of the two collections together in PlainInputs / OddInputs

A == <<"A">>
B == <<"B">>
C == <<"C">>
D == <<"D">>

\* array entries: team names and the null / empty entries the filter removes
Entries == {A, B, C, Null}
Owners == {A, Null, EmptyString}

ArrayFields ==
    {ArrayValue(items) : items \in UNION {[1..n -> Entries] : n \in 0..MaxRelated}}
    \cup {UndefinedArray, NotAnArray}

NumberFields == {NumberValue(n) : n \in {-1} \cup 0..MaxMagnitude} \cup {UndefinedNumber}

OutboundRecord(team, related, count) ==
    [owned_team |-> team, relying_on_teams_array |-> related,
     number_of_dependent_issues |-> count]

InboundRecord(team, related, volume) ==
    [assignee_team |-> team, relying_teams_array |-> related,
     volume_of_work_relied_upon |-> volume]

\* records of every shape: null / empty owner, null entries, missing or non-array
\* list, missing, zero or negative count
RichOutbound == {OutboundRecord(t, r, n) : t \in Owners, r \in ArrayFields, n \in NumberFields}
RichInbound == {InboundRecord(t, r, n) : t \in Owners, r \in ArrayFields, n \in NumberFields}

\* well-formed records between the teams A, B and C
PlainPairs == {<<t, u>> \in {A, B} \X {A, B, C} : t # u}
PlainOutbound ==
    {OutboundRecord(p[1], ArrayValue(<<p[2]>>), NumberValue(n)) : p \in PlainPairs, n \in {1, 3}}
PlainInbound ==
    {InboundRecord(p[1], ArrayValue(<<p[2]>>), NumberValue(n)) : p \in PlainPairs, n \in {1, 3}}

\* well-formed records between teams whose names hold the characters of the
\* delimiters '->' and '|||'
Pipe == <<"|">>
TwoPipes == <<"|", "|">>
APipe == <<"A", "|">>
Arrow == <<"-", ">">>
OddPairs ==
    {<<Pipe, APipe>>, <<APipe, Pipe>>, <<A, TwoPipes>>, <<TwoPipes, A>>,
     <<A, Arrow>>, <<Arrow, A>>}
OddOutbound ==
    {OutboundRecord(p[1], ArrayValue(<<p[2]>>), NumberValue(1)) : p \in OddPairs}
OddInbound ==
    {InboundRecord(p[1], ArrayValue(<<p[2]>>), NumberValue(1)) : p \in OddPairs}

\* lists of exactly n elements of S
Lists(S, n) == [1..n -> S]

\* <<outbound, inbound>> with at most n records in the two collections together
InputsUpTo(Out, In, n) ==
    UNION {Lists(Out, k) \X Lists(In, m) : <<k, m>> \in {<<x, y>> \in (0..n) \X (0..n) : x + y <= n}}

InsertAt(list, k, r) == SubSeq(list, 1, k - 1) \o <<r>> \o SubSeq(list, k, Len(list))

\* the well-formed records that accompany a record of any shape
CompanionPairs == {<<A, B>>, <<B, A>>}
CompanionOutbound ==
    {OutboundRecord(p[1], ArrayValue(<<p[2]>>), NumberValue(1)) : p \in CompanionPairs}
CompanionInbound ==
    {InboundRecord(p[1], ArrayValue(<<p[2]>>), NumberValue(1)) : p \in CompanionPairs}

\* one record of any shape, alone or before, after or opposite one well-formed record
RichInput(out, in) ==
    \E p \in InputsUpTo(CompanionOutbound, CompanionInbound, 1) :
       \/ \E r \in RichOutbound, k \in 1..(Len(p[1]) + 1) :
             out = InsertAt(p[1], k, r) /\ in = p[2]
       \/ \E r \in RichInbound, k \in 1..(Len(p[2]) + 1) :
             out = p[1] /\ in = InsertAt(p[2], k, r)

\* several well-formed records
PlainInput(out, in) ==
    \E p \in InputsUpTo(PlainOutbound, PlainInbound, MaxRecords) : out = p[1] /\ in = p[2]

\* several well-formed records of teams with delimiter characters in their names
OddInput(out, in) ==
    \E p \in InputsUpTo(OddOutbound, OddInbound, MaxRecords) : out = p[1] /\ in = p[2]

\* Scenario D and its neighbours: the teams A, B and C in the graph, and inbound
\* records of an owner inside or outside the graph, with or without a relying team
CrowdOutbound == {OutboundRecord(A, ArrayValue(<<B, C>>), NumberValue(2))}
CrowdInbound ==
    {InboundRecord(t, ArrayValue(r), NumberValue(n)) :
        t \in {A, B, C, D}, r \in {<<>>, <<D>>}, n \in {0, 1, 3}}

CrowdInput(out, in) ==
    /\ out \in Lists(CrowdOutbound, 1)
    /\ in \in Lists(CrowdInbound, 0) \cup Lists(CrowdInbound, 1) \cup Lists(CrowdInbound, 2)

\* a count spread so thin that every related team gets Math.round(1 / 3) = 0,
\* beside a record of the opposite direction
ThinOutbound == OutboundRecord(A, ArrayValue(<<B, C, D>>), NumberValue(1))
ThinInbound == InboundRecord(B, ArrayValue(<<A, C, D>>), NumberValue(1))
OppositeOutbound == {OutboundRecord(B, ArrayValue(<<A>>), NumberValue(n)) : n \in {1, 3}}
OppositeInbound == {InboundRecord(A, ArrayValue(<<B>>), NumberValue(n)) : n \in {1, 3}}

ThinInput(out, in) ==
    \/ \E r \in OppositeOutbound, k \in 1..2 : out = InsertAt(<<ThinOutbound>>, k, r) /\ in = <<>>
    \/ \E r \in OppositeInbound : out = <<ThinOutbound>> /\ in = <<r>>
    \/ \E r \in OppositeOutbound : out = <<r>> /\ in = <<ThinInbound>>
    \/ \E r \in OppositeInbound, k \in 1..2 : out = <<>> /\ in = InsertAt(<<ThinInbound>>, k, r)
    \/ out = <<ThinOutbound>> /\ in = <<ThinInbound>>

\* well-formed records between teams whose names hold the dash that joins the
\* two names in an edge id
ADashB == <<"A", "-", "B">>
BDashC == <<"B", "-", "C">>
DashPairs == {<<ADashB, C>>, <<A, BDashC>>, <<A, B>>, <<C, ADashB>>}
DashOutbound ==
    {OutboundRecord(p[1], ArrayValue(<<p[2]>>), NumberValue(1)) : p \in DashPairs}
DashInbound ==
    {InboundRecord(p[1], ArrayValue(<<p[2]>>), NumberValue(1)) : p \in DashPairs}

DashInput(out, in) ==
    \/ out \in Lists(DashOutbound, 1) \cup Lists(DashOutbound, 2) /\ in = <<>>
    \/ out \in Lists(DashOutbound, 1) /\ in \in Lists(DashInbound, 1)

----------------------------------------------------------------------------
(* The page when it is mounted *)

\* history value: no graph was computed from fetched data yet
NoRun == [computed |-> FALSE]

\* the initial values of the useState hooks, and the memos that are not part of
\* the render below
MountedView ==
    /\ loading = FALSE
    /\ error = Null
    /\ selectedPI = EmptyString
    /\ piInput = EmptyString
    /\ activeTab = "hierarchical"
    /\ edgesForLayout = <<>>
    /\ hierarchicalNodes = <<>>
    /\ circularNodes = <<>>
    /\ nodes = <<>>
    /\ fetches = <<>>
    /\ settled = <<>>
    /\ firstRun = NoRun

----------------------------------------------------------------------------
(* The render *)

Init ==
    /\ \/ RichInput(outboundData, inboundData)
       \/ PlainInput(outboundData, inboundData)
       \/ OddInput(outboundData, inboundData)
       \/ CrowdInput(outboundData, inboundData)
       \/ ThinInput(outboundData, inboundData)
       \/ DashInput(outboundData, inboundData)
    /\ stage = "teamDependencies"
    /\ raised = FALSE
    /\ dependencyMap = <<>>
    /\ teamDependencies = <<>>
    /\ uniqueTeams = <<>>
    /\ teamConnectionCounts = <<>>
    /\ top3Teams = {}
    /\ initialNodesBeforeLayout = <<>>
    /\ edges = <<>>
    /\ MountedView

\* useMemo teamDependencies; a TypeError inside it aborts the render
RenderTeamDependencies ==
    /\ stage = "teamDependencies"
    /\ IF ~(Len(outboundData) = 0 /\ Len(inboundData) = 0)
          /\ TransformThrows(outboundData, inboundData)
       THEN /\ raised' = TRUE
            /\ stage' = "thrown"
            /\ UNCHANGED <<dependencyMap, teamDependencies>>
       ELSE /\ raised' = FALSE
            /\ stage' = "uniqueTeams"
            /\ dependencyMap' =
                  IF Len(outboundData) = 0 /\ Len(inboundData) = 0 THEN <<>>
                  ELSE DependencyMapOf(outboundData, inboundData)
            /\ teamDependencies' = TeamDependenciesMemo(outboundData, inboundData)
    /\ UNCHANGED <<outboundData, inboundData, uniqueTeams, teamConnectionCounts,
                   top3Teams, initialNodesBeforeLayout, edges>>
    /\ UNCHANGED viewVars

RenderUniqueTeams ==
    /\ stage = "uniqueTeams"
    /\ uniqueTeams' = UniqueTeamsMemo(teamDependencies)
    /\ stage' = "teamConnectionCounts"
    /\ UNCHANGED <<outboundData, inboundData, raised, dependencyMap, teamDependencies,
                   teamConnectionCounts, top3Teams, initialNodesBeforeLayout, edges>>
    /\ UNCHANGED viewVars

RenderTeamConnectionCounts ==
    /\ stage = "teamConnectionCounts"
    /\ teamConnectionCounts' = TeamConnectionCountsMemo(inboundData, uniqueTeams)
    /\ stage' = "initialNodes"
    /\ UNCHANGED <<outboundData, inboundData, raised, dependencyMap, teamDependencies,
                   uniqueTeams, top3Teams, initialNodesBeforeLayout, edges>>
    /\ UNCHANGED viewVars

\* useMemo top3Teams, then useMemo initialNodesBeforeLayout
RenderInitialNodes ==
    /\ stage = "initialNodes"
    /\ top3Teams' = Top3TeamsMemo(teamConnectionCounts)
    /\ initialNodesBeforeLayout' =
          InitialNodesBeforeLayoutMemo(uniqueTeams, teamConnectionCounts, top3Teams')
    /\ stage' = "edges"
    /\ UNCHANGED <<outboundData, inboundData, raised, dependencyMap, teamDependencies,
                   uniqueTeams, teamConnectionCounts, edges>>
    /\ UNCHANGED viewVars

RenderEdges ==
    /\ stage = "edges"
    /\ edges' = EdgesMemo(teamDependencies, activeTab)
    /\ stage' = "rendered"
    /\ UNCHANGED <<outboundData, inboundData, raised, dependencyMap, teamDependencies,
                   uniqueTeams, teamConnectionCounts, top3Teams, initialNodesBeforeLayout>>
    /\ UNCHANGED viewVars

Next ==
    \/ RenderTeamDependencies
    \/ RenderUniqueTeams
    \/ RenderTeamConnectionCounts
    \/ RenderInitialNodes
    \/ RenderEdges

Spec == Init /\ [][Next]_vars

----------------------------------------------------------------------------
(* The page: fetching, the filter, the tabs and dragging *)

MaxOutstanding == 2   \* most calls of fetchData waiting for their requests at a time
MaxDragged == 1       \* the user drags the first MaxDragged nodes of the displayed list

P == <<"P">>
Q == <<"Q">>
Space == <<" ">>

\* what the user types into the PI name input
PiInputs == {EmptyString, Space, P, Space \o Q}

\* what the two endpoints answer
OutboundResults ==
    {<<>>,
     <<OutboundRecord(A, ArrayValue(<<B, C>>), NumberValue(4))>>,
     <<OutboundRecord(A, NotAnArray, NumberValue(1))>>}
InboundResults ==
    {<<>>,
     <<InboundRecord(B, ArrayValue(<<A>>), NumberValue(3))>>,
     <<InboundRecord(C, ArrayValue(<<Null>>), NumberValue(2))>>}

\* what a request is rejected with: an Error with a message, or another value
NetworkError == [isError |-> TRUE, message |-> <<"N", "e", "t">>]
NotAnError == [isError |-> FALSE, message |-> EmptyString]
Rejections == {NetworkError, NotAnError}

\* where a dragged node is dropped
DragPositions == {[x |-> 10, y |-> 20]}

\* String.prototype.trim
RECURSIVE TrimStart(_)
TrimStart(s) == IF s # <<>> /\ Head(s) = " " THEN TrimStart(Tail(s)) ELSE s
RECURSIVE TrimEnd(_)
TrimEnd(s) ==
    IF s # <<>> /\ s[Len(s)] = " " THEN TrimEnd(SubSeq(s, 1, Len(s) - 1)) ELSE s
\* the PI name taken as it was typed
Untrimmed(s) == s
Trim(s) == TrimEnd(TrimStart(s))

\* which branch of the component's return is on screen; "crashed" is a render
\* that threw: without an error boundary React unmounts the page
View ==
    IF raised THEN "crashed"
    ELSE IF loading THEN "loading"
    ELSE IF Truthy(error) THEN "error"
    ELSE IF ~Truthy(selectedPI) THEN "noPI"
    ELSE IF Len(uniqueTeams) = 0 THEN "empty"
    ELSE "graph"

\* the filters shown above the loading message too
FiltersShownWhileLoading == View \in {"noPI", "empty", "graph", "loading"}

\* the branches that show the PI name input and the Apply button
FiltersShown == View \in {"noPI", "empty", "graph"}

\* the body of the component from useMemo teamDependencies to useMemo edges, run
\* on the state the render sees; a TypeError of the transform aborts it
RenderMemos(out, in, tab) ==
    IF ~(Len(out) = 0 /\ Len(in) = 0) /\ TransformThrows(out, in)
    THEN /\ raised' = TRUE
         /\ stage' = "thrown"
         /\ UNCHANGED <<dependencyMap, teamDependencies, uniqueTeams, teamConnectionCounts,
                        top3Teams, initialNodesBeforeLayout, edgesForLayout,
                        hierarchicalNodes, circularNodes, edges>>
    ELSE /\ raised' = FALSE
         /\ stage' = "rendered"
         /\ dependencyMap' = IF Len(out) = 0 /\ Len(in) = 0 THEN <<>>
                             ELSE DependencyMapOf(out, in)
         /\ teamDependencies' = TeamDependenciesMemo(out, in)
         /\ uniqueTeams' = UniqueTeamsMemo(teamDependencies')
         /\ teamConnectionCounts' = TeamConnectionCountsMemo(in, uniqueTeams')
         /\ top3Teams' = Top3TeamsMemo(teamConnectionCounts')
         /\ edgesForLayout' = EdgesForLayoutMemo(teamDependencies')
         /\ initialNodesBeforeLayout' =
               InitialNodesBeforeLayoutMemo(uniqueTeams', teamConnectionCounts', top3Teams')
         /\ hierarchicalNodes' =
               HierarchicalNodesMemo(initialNodesBeforeLayout', edgesForLayout')
         /\ circularNodes' = CircularNodesMemo(initialNodesBeforeLayout')
         /\ edges' = EdgesMemo(teamDependencies', tab)

\* useEffect(() => setNodes(layoutedNodes), [layoutedNodes]) after a render whose
\* layoutedNodes is a new array
SetNodesEffect(tab) ==
    nodes' = IF raised' THEN nodes
             ELSE LayoutedNodesMemo(tab, hierarchicalNodes', circularNodes')

\* history: the graph of the first render of fetched data, and whether other
\* data were rendered since
RecordRun(out, in, tab) ==
    firstRun' =
        IF raised' THEN firstRun
        ELSE IF ~firstRun.computed
        THEN [computed |-> TRUE, outbound |-> out, inbound |-> in, tab |-> tab,
              others |-> FALSE,
              teamDependencies |-> teamDependencies', uniqueTeams |-> uniqueTeams',
              teamConnectionCounts |-> teamConnectionCounts', top3Teams |-> top3Teams',
              initialNodesBeforeLayout |-> initialNodesBeforeLayout',
              hierarchicalNodes |-> hierarchicalNodes', circularNodes |-> circularNodes',
              edges |-> edges']
        ELSE IF firstRun.outbound # out \/ firstRun.inbound # in
        THEN [firstRun EXCEPT !.others = TRUE]
        ELSE firstRun

\* a request of a fetchData call
Pending == [state |-> "pending", result |-> <<>>]
Fulfilled(result) == [state |-> "fulfilled", result |-> result]

\* fetchData up to its await: setLoading(true), setError(null) and the two requests
fetchData(pi) ==
    /\ Len(fetches) < MaxOutstanding
    /\ loading' = TRUE
    /\ error' = Null
    /\ fetches' = Append(fetches, [pi |-> pi, outbound |-> Pending, inbound |-> Pending])

Without(list, i) == SubSeq(list, 1, i - 1) \o SubSeq(list, i + 1, Len(list))

\* history: the end of a call is appended, the last two ends are kept
Settle(end) == IF settled = <<>> THEN <<end>> ELSE <<settled[Len(settled)], end>>

\* setOutboundData(outboundResult) and setInboundData(inboundResult)
OutboundDataAfterSuccess(current, outboundResult) == outboundResult
InboundDataKept(current, inboundResult) == current
InboundDataAfterSuccess(current, inboundResult) == inboundResult

\* setOutboundData([]) and setInboundData([]) of the catch block
OutboundDataKeptAfterFailure(current) == current
OutboundDataAfterFailure(current) == <<>>
InboundDataAfterFailure(current) == <<>>

\* err instanceof Error ? err.message : 'Failed to fetch team dependency data',
\* then `${errorMessage}. Check browser console for details.`
ErrorMessage(err) ==
    (IF err.isError THEN err.message ELSE <<"F", "a", "i", "l", "e", "d">>)
    \o <<".", " ", "C", "h", "e", "c", "k">>

\* setLoading(false) of the finally block
\* a finally block that leaves loading as fetchData had set it
LoadingKeptAfterFetch == TRUE
LoadingAfterFetch == FALSE

\* fetchData after its await when Promise.all fulfilled: the try block and finally
FetchDataFulfilled(i, outboundResult, inboundResult) ==
    /\ outboundData' = OutboundDataAfterSuccess(outboundData, outboundResult)
    /\ inboundData' = InboundDataAfterSuccess(inboundData, inboundResult)
    /\ loading' = LoadingAfterFetch
    /\ fetches' = Without(fetches, i)
    /\ settled' = Settle([kind |-> "fulfilled", latest |-> i = Len(fetches),
                          outbound |-> outboundResult, inbound |-> inboundResult])
    /\ RenderMemos(outboundData', inboundData', activeTab)
    /\ SetNodesEffect(activeTab)
    /\ RecordRun(outboundData', inboundData', activeTab)
    /\ UNCHANGED <<error, selectedPI, piInput, activeTab>>

\* fetchData after its await when Promise.all rejected: catch and finally
FetchDataRejected(i, err) ==
    /\ settled' = Settle([kind |-> "rejected", latest |-> i = Len(fetches),
                          outbound |-> fetches[i].outbound.result,
                          inbound |-> fetches[i].inbound.result])
    /\ error' = ErrorMessage(err)
    /\ outboundData' = OutboundDataAfterFailure(outboundData)
    /\ inboundData' = InboundDataAfterFailure(inboundData)
    /\ loading' = LoadingAfterFetch
    /\ fetches' = Without(fetches, i)
    /\ RenderMemos(outboundData', inboundData', activeTab)
    /\ SetNodesEffect(activeTab)
    /\ UNCHANGED <<selectedPI, piInput, activeTab, firstRun>>

\* a render that changes no dependency of a memo
SameRender ==
    /\ RenderMemos(outboundData, inboundData, activeTab)
    /\ UNCHANGED <<outboundData, inboundData, settled, firstRun>>

ViewInit ==
    /\ outboundData = <<>>
    /\ inboundData = <<>>
    /\ stage = "rendered"
    /\ raised = FALSE
    /\ dependencyMap = <<>>
    /\ teamDependencies = <<>>
    /\ uniqueTeams = <<>>
    /\ teamConnectionCounts = <<>>
    /\ top3Teams = {}
    /\ initialNodesBeforeLayout = <<>>
    /\ edges = <<>>
    /\ MountedView

\* onChange of the PI name input
SetPiInput ==
    /\ FiltersShown
    /\ \E value \in PiInputs : piInput' = value
    /\ SameRender
    /\ UNCHANGED <<loading, error, selectedPI, activeTab, nodes, fetches>>

\* handleApplyFilter, by the Apply button or the Enter key, and the effect of
\* [selectedPI] that follows a changed selectedPI
HandleApplyFilter ==
    /\ FiltersShown
    /\ LET piName == Trim(piInput)
       IN IF Truthy(piName) /\ piName # selectedPI
          THEN /\ selectedPI' = piName
               /\ fetchData(piName)
               /\ RenderMemos(outboundData, inboundData, activeTab)
               /\ UNCHANGED <<outboundData, inboundData, piInput, activeTab, nodes,
                              settled, firstRun>>
          ELSE /\ SameRender
               /\ UNCHANGED <<loading, error, selectedPI, piInput, activeTab, nodes, fetches>>

\* onClick of the Retry button
Retry ==
    /\ View = "error"
    /\ fetchData(selectedPI)
    /\ RenderMemos(outboundData, inboundData, activeTab)
    /\ UNCHANGED <<outboundData, inboundData, selectedPI, piInput, activeTab, nodes,
                   settled, firstRun>>

\* the outbound request of a call is answered; Promise.all fulfils when the
\* inbound request was answered before
OutboundFulfilled ==
    /\ ~raised
    /\ \E i \in 1..Len(fetches), result \in OutboundResults :
          /\ fetches[i].outbound.state = "pending"
          /\ IF fetches[i].inbound.state = "fulfilled"
             THEN FetchDataFulfilled(i, result, fetches[i].inbound.result)
             ELSE /\ fetches' = [fetches EXCEPT ![i].outbound = Fulfilled(result)]
                  /\ SameRender
                  /\ UNCHANGED <<loading, error, selectedPI, piInput, activeTab, nodes>>

InboundFulfilled ==
    /\ ~raised
    /\ \E i \in 1..Len(fetches), result \in InboundResults :
          /\ fetches[i].inbound.state = "pending"
          /\ IF fetches[i].outbound.state = "fulfilled"
             THEN FetchDataFulfilled(i, fetches[i].outbound.result, result)
             ELSE /\ fetches' = [fetches EXCEPT ![i].inbound = Fulfilled(result)]
                  /\ SameRender
                  /\ UNCHANGED <<loading, error, selectedPI, piInput, activeTab, nodes>>

\* one of the two requests of a call fails: Promise.all rejects at once
RequestRejected ==
    /\ ~raised
    /\ \E i \in 1..Len(fetches), err \in Rejections :
          /\ \/ fetches[i].outbound.state = "pending"
             \/ fetches[i].inbound.state = "pending"
          /\ FetchDataRejected(i, err)

\* onClick of a tab button
SetActiveTab ==
    /\ View = "graph"
    /\ \E tab \in {"hierarchical", "circular"} :
          /\ activeTab' = tab
          /\ RenderMemos(outboundData, inboundData, tab)
          /\ IF tab # activeTab THEN SetNodesEffect(tab) ELSE UNCHANGED nodes
    /\ UNCHANGED <<outboundData, inboundData, loading, error, selectedPI, piInput,
                   fetches, settled, firstRun>>

\* the nodes whose displayed position is not the one of the layout
Dragged == {k \in 1..Len(nodes) : nodes[k].position \in DragPositions}

\* onNodesChange with the position change of a drag: applyNodeChanges(changes, nds)
OnNodesChange ==
    /\ View = "graph"
    /\ \E k \in 1..Len(nodes), position \in DragPositions :
          /\ k <= MaxDragged
          /\ nodes' = [nodes EXCEPT ![k].position = position]
    /\ SameRender
    /\ UNCHANGED <<loading, error, selectedPI, piInput, activeTab, fetches>>

ViewNext ==
    \/ SetPiInput
    \/ HandleApplyFilter
    \/ Retry
    \/ OutboundFulfilled
    \/ InboundFulfilled
    \/ RequestRejected
    \/ SetActiveTab
    \/ OnNodesChange

ViewSpec == ViewInit /\ [][ViewNext]_vars

----------------------------------------------------------------------------
(* The layouts and the drawn edges on their own, from aggregated dependencies *)

\* the node lists the layouts are run on: none, and 1, 2, 3, 4 and 6 teams
LayoutTeamLists ==
    {<<>>, <<A>>, <<A, B>>, <<B, A>>, <<A, B, C>>, <<A, B, C, D>>,
     <<A, B, C, D, A \o B, C \o D>>}

\* their connection counts: none counted, growing and falling along the list
LayoutCounts(teams) ==
    {<<>>,
     [i \in 1..Len(teams) |-> [key |-> teams[i], value |-> i]],
     [i \in 1..Len(teams) |-> [key |-> teams[i], value |-> 2 * (Len(teams) - i)]]}

\* the weights of the dependencies along a list: growing from 0, growing in
\* steps of 3 from 6, and 10 throughout
LayoutWeights == {[i \in 1..5 |-> i - 1], [i \in 1..5 |-> 3 * i + 3], [i \in 1..5 |-> 10]}

Dependency(from, to, count) == [fromTeam |-> from, toTeam |-> to, storyCount |-> count]

\* the aggregated dependencies between the teams of a list: none, a chain, the
\* chain backwards, a star, and a chain whose first pair depends both ways
LayoutDependencies(teams) ==
    {<<>>} \cup
    IF Len(teams) < 2 THEN {}
    ELSE UNION {
           {[i \in 1..(Len(teams) - 1) |-> Dependency(teams[i], teams[i + 1], w[i])],
            [i \in 1..(Len(teams) - 1) |-> Dependency(teams[i + 1], teams[i], w[i])],
            [i \in 1..(Len(teams) - 1) |-> Dependency(teams[1], teams[i + 1], w[i])],
            [i \in 1..(Len(teams) - 1) |-> Dependency(teams[i], teams[i + 1], w[i])]
               \o <<Dependency(teams[2], teams[1], w[2])>>} : w \in LayoutWeights}

LayoutNodeLists ==
    {InitialNodesBeforeLayoutMemo(teams, counts, Top3TeamsMemo(counts)) :
        teams \in LayoutTeamLists,
        counts \in UNION {LayoutCounts(t) : t \in LayoutTeamLists}}

LayoutInit ==
    /\ outboundData = <<>>
    /\ inboundData = <<>>
    /\ stage = "hierarchicalLayout"
    /\ raised = FALSE
    /\ dependencyMap = <<>>
    /\ edges = <<>>
    /\ loading = FALSE
    /\ error = Null
    /\ selectedPI = P
    /\ piInput = P
    /\ fetches = <<>>
    /\ settled = <<>>
    /\ firstRun = NoRun
    /\ hierarchicalNodes = <<>>
    /\ circularNodes = <<>>
    /\ nodes = <<>>
    /\ activeTab \in {"hierarchical", "circular"}
    /\ \E teams \in LayoutTeamLists :
          /\ uniqueTeams = teams
          /\ \E counts \in LayoutCounts(teams) :
                /\ teamConnectionCounts = counts
                /\ top3Teams = Top3TeamsMemo(counts)
                /\ initialNodesBeforeLayout =
                      InitialNodesBeforeLayoutMemo(teams, counts, top3Teams)
          /\ teamDependencies \in LayoutDependencies(teams)
          /\ edgesForLayout = EdgesForLayoutMemo(teamDependencies)

\* what no layout step assigns to
layoutFrame ==
    <<outboundData, inboundData, raised, dependencyMap, teamDependencies, uniqueTeams,
      teamConnectionCounts, top3Teams, loading, error, selectedPI, piInput,
      activeTab, fetches, settled, firstRun>>

\* useMemo hierarchicalLayoutResult: nodes.map builds new node objects and the
\* edges are only read, so the two inputs keep their values
HierarchicalLayout ==
    /\ stage = "hierarchicalLayout"
    /\ hierarchicalNodes' = HierarchicalNodesMemo(initialNodesBeforeLayout, edgesForLayout)
    /\ stage' = "circularLayout"
    /\ UNCHANGED <<initialNodesBeforeLayout, edgesForLayout, circularNodes, nodes, edges>>
    /\ UNCHANGED layoutFrame

\* useMemo circularNodes
CircularLayout ==
    /\ stage = "circularLayout"
    /\ circularNodes' = CircularNodesMemo(initialNodesBeforeLayout)
    /\ stage' = "layoutedNodes"
    /\ UNCHANGED <<initialNodesBeforeLayout, edgesForLayout, hierarchicalNodes, nodes,
                   edges>>
    /\ UNCHANGED layoutFrame

\* useMemo layoutedNodes and the effect that displays it
SelectLayoutedNodes ==
    /\ stage = "layoutedNodes"
    /\ nodes' = LayoutedNodesMemo(activeTab, hierarchicalNodes, circularNodes)
    /\ stage' = "edges"
    /\ UNCHANGED <<initialNodesBeforeLayout, edgesForLayout, hierarchicalNodes,
                   circularNodes, edges>>
    /\ UNCHANGED layoutFrame

LayoutNext ==
    \/ HierarchicalLayout
    \/ CircularLayout
    \/ SelectLayoutedNodes
    \/ RenderEdges

LayoutSpec == LayoutInit /\ [][LayoutNext]_vars

----------------------------------------------------------------------------
(* Properties *)

Indices(list) == 1..Len(list)
Range(list) == {list[i] : i \in Indices(list)}
Keys(map) == {map[i].key : i \in Indices(map)}
WeightOf(map, key) == IF MapHas(map, key) THEN MapGet(map, key) ELSE 0
Occurrences(list, x) == Cardinality({i \in Indices(list) : list[i] = x})

\* the render got past transformApiDataToTeamDependencies
Transformed ==
    stage \in {"uniqueTeams", "teamConnectionCounts", "initialNodes", "edges", "rendered"}

\* the filtered related teams of a record, and whether the loops use the record
OutboundRelated(item) == FilterTeams(item.relying_on_teams_array.items)
InboundRelated(item) == FilterTeams(item.relying_teams_array.items)
OutboundUsed(item) == Truthy(item.owned_team) /\ Len(OutboundRelated(item)) > 0
InboundUsed(item) == Truthy(item.assignee_team) /\ Len(InboundRelated(item)) > 0

\* C1: every dependency produced by transformApiDataToTeamDependencies and every
\* edge emitted by the merger has source # target and a weight that is a natural
\* number; a related team equal to the owner team yields no edge.
C1_NoSelfLoopNonNegative ==
    /\ \A i \in Indices(teamDependencies) :
          /\ teamDependencies[i].fromTeam # teamDependencies[i].toTeam
          /\ teamDependencies[i].storyCount \in Nat
    /\ \A i \in Indices(edges) :
          /\ edges[i].source # edges[i].target
          /\ edges[i].label \in Nat

\* a rendered graph with edges whose input holds a record that names its owner
\* among its related teams
C1_Witness ==
    /\ stage = "rendered"
    /\ Len(edges) > 0
    /\ \E i \in Indices(outboundData) :
          /\ OutboundUsed(outboundData[i])
          /\ outboundData[i].owned_team \in Range(OutboundRelated(outboundData[i]))

\* the edges the merger emitted from one team to another
EdgesBetween(source, target) ==
    {i \in Indices(edges) : edges[i].source = source /\ edges[i].target = target}

\* C2: for any two teams with positive aggregated weight in both directions the
\* merger emits exactly one edge per direction, each with the weight of its own
\* direction, and the two edges differ in stroke colour.
C2_BidirectionalFidelity ==
    stage = "rendered" =>
        \A i, j \in Indices(teamDependencies) :
            LET d == teamDependencies[i]
                r == teamDependencies[j]
            IN (/\ d.fromTeam = r.toTeam /\ d.toTeam = r.fromTeam
                /\ d.storyCount > 0 /\ r.storyCount > 0)
               => /\ Cardinality(EdgesBetween(d.fromTeam, d.toTeam)) = 1
                  /\ Cardinality(EdgesBetween(r.fromTeam, r.toTeam)) = 1
                  /\ \A k \in EdgesBetween(d.fromTeam, d.toTeam),
                        m \in EdgesBetween(r.fromTeam, r.toTeam) :
                        /\ edges[k].label = d.storyCount
                        /\ edges[m].label = r.storyCount
                        /\ edges[k].stroke # edges[m].stroke

\* the accumulator of a run on one record alone
OutboundAlone(item) == DependencyMapOf(<<item>>, <<>>)
InboundAlone(item) == DependencyMapOf(<<>>, <<item>>)

RECURSIVE SumOutbound(_, _)
SumOutbound(items, key) ==
    IF items = <<>> THEN 0
    ELSE WeightOf(OutboundAlone(Head(items)), key) + SumOutbound(Tail(items), key)

RECURSIVE SumInbound(_, _)
SumInbound(items, key) ==
    IF items = <<>> THEN 0
    ELSE WeightOf(InboundAlone(Head(items)), key) + SumInbound(Tail(items), key)

ScenarioC ==
    /\ outboundData = <<OutboundRecord(A, ArrayValue(<<B>>), NumberValue(3))>>
    /\ inboundData = <<InboundRecord(B, ArrayValue(<<A>>), NumberValue(3))>>

\* C3: the weight accumulated under a key is the sum of what each outbound and
\* each inbound record contributes to that key on its own, no key is lost, and a
\* dependency carries the weight of its key; outbound A->B of 3 plus inbound
\* 'B depended on by A' of 3 is the single dependency (A, B, 6).
C3_AdditiveAggregation ==
    Transformed =>
        /\ Keys(dependencyMap) =
              UNION {Keys(OutboundAlone(outboundData[i])) : i \in Indices(outboundData)}
              \cup UNION {Keys(InboundAlone(inboundData[i])) : i \in Indices(inboundData)}
        /\ \A key \in Keys(dependencyMap) :
              WeightOf(dependencyMap, key) =
                  SumOutbound(outboundData, key) + SumInbound(inboundData, key)
        /\ \A i \in Indices(teamDependencies) :
              teamDependencies[i].storyCount =
                  WeightOf(dependencyMap,
                           DepKey(teamDependencies[i].fromTeam, teamDependencies[i].toTeam))
        /\ ScenarioC =>
              teamDependencies = <<[fromTeam |-> A, toTeam |-> B, storyCount |-> 6]>>

\* both collections contribute to one key, and so do two records of one collection
C3_Witness ==
    /\ Transformed
    /\ \E key \in Keys(dependencyMap) :
          /\ SumOutbound(outboundData, key) > 0
          /\ SumInbound(inboundData, key) > 0
          /\ \E i, j \in Indices(outboundData) :
                /\ i # j
                /\ WeightOf(OutboundAlone(outboundData[i]), key) > 0
                /\ WeightOf(OutboundAlone(outboundData[j]), key) > 0

\* the integer nearest to m / n, the upper one of two equally near
Nearest(m, n) == CHOOSE q \in 0..m : 2 * q * n - 2 * m <= n /\ 2 * m - 2 * q * n < n

ScenarioA ==
    /\ outboundData = <<OutboundRecord(A, ArrayValue(<<B, C>>), NumberValue(4))>>
    /\ inboundData = <<>>

\* C4: a record with magnitude m > 0 and n filtered related teams contributes
\* round(m / n) to the key of each related team other than the owner, once per
\* occurrence, n counting every filtered entry; owner A, related [B, C],
\* magnitude 4 and no inbound records give exactly (A, B, 2) and (A, C, 2).
C4_EvenDistribution ==
    /\ \A i \in Indices(outboundData) :
          LET item == outboundData[i]
              owner == item.owned_team
              teams == OutboundRelated(item)
              m == OrZero(item.number_of_dependent_issues)
          IN (OutboundUsed(item) /\ m > 0) =>
                \A t \in Range(teams) \ {owner} :
                    WeightOf(OutboundAlone(item), DepKey(owner, t)) =
                        Occurrences(teams, t) * Nearest(m, Len(teams))
    /\ \A i \in Indices(inboundData) :
          LET item == inboundData[i]
              owner == item.assignee_team
              teams == InboundRelated(item)
              m == OrZero(item.volume_of_work_relied_upon)
          IN (InboundUsed(item) /\ m > 0) =>
                \A t \in Range(teams) \ {owner} :
                    WeightOf(InboundAlone(item), DepKey(t, owner)) =
                        Occurrences(teams, t) * Nearest(m, Len(teams))
    /\ (ScenarioA /\ Transformed) =>
          teamDependencies = <<[fromTeam |-> A, toTeam |-> B, storyCount |-> 2],
                               [fromTeam |-> A, toTeam |-> C, storyCount |-> 2]>>

\* a magnitude of 3 shared by two related teams, one of them the owner: the
\* other team's dependency carries round(1.5) = 2
C4_Witness ==
    /\ Transformed
    /\ outboundData = <<OutboundRecord(A, ArrayValue(<<A, B>>), NumberValue(3))>>
    /\ teamDependencies = <<[fromTeam |-> A, toTeam |-> B, storyCount |-> 2]>>

ScenarioB ==
    /\ outboundData = <<OutboundRecord(A, ArrayValue(<<B>>), NumberValue(0))>>
    /\ inboundData = <<>>

\* C5: a record whose magnitude is 0 or missing and that has a filtered related
\* team contributes 1 to the key of each related team other than the owner, once
\* per occurrence; owner A, related [B], magnitude 0 gives (A, B, 1).
C5_ZeroMagnitudeDefault ==
    /\ \A i \in Indices(outboundData) :
          LET item == outboundData[i]
              owner == item.owned_team
              teams == OutboundRelated(item)
          IN (OutboundUsed(item) /\ OrZero(item.number_of_dependent_issues) = 0) =>
                \A t \in Range(teams) \ {owner} :
                    WeightOf(OutboundAlone(item), DepKey(owner, t)) = Occurrences(teams, t)
    /\ \A i \in Indices(inboundData) :
          LET item == inboundData[i]
              owner == item.assignee_team
              teams == InboundRelated(item)
          IN (InboundUsed(item) /\ OrZero(item.volume_of_work_relied_upon) = 0) =>
                \A t \in Range(teams) \ {owner} :
                    WeightOf(InboundAlone(item), DepKey(t, owner)) = Occurrences(teams, t)
    /\ (ScenarioB /\ Transformed) =>
          teamDependencies = <<[fromTeam |-> A, toTeam |-> B, storyCount |-> 1]>>

\* an inbound record without a volume, naming the same related team twice
C5_Witness ==
    /\ Transformed
    /\ inboundData = <<InboundRecord(A, ArrayValue(<<B, B>>), UndefinedNumber)>>
    /\ teamDependencies = <<[fromTeam |-> B, toTeam |-> A, storyCount |-> 2]>>

\* C6: an inbound record contributes to the keys (related team, owner team) and
\* to no other key, an outbound record to the keys (owner team, related team);
\* so every dependency goes from the owner of an outbound record to one of its
\* related teams or from a related team of an inbound record to its owner.
C6_Direction ==
    /\ \A i \in Indices(inboundData) :
          LET item == inboundData[i]
          IN Keys(InboundAlone(item)) =
                IF InboundUsed(item)
                THEN {DepKey(t, item.assignee_team) :
                         t \in Range(InboundRelated(item)) \ {item.assignee_team}}
                ELSE {}
    /\ \A i \in Indices(outboundData) :
          LET item == outboundData[i]
          IN Keys(OutboundAlone(item)) =
                IF OutboundUsed(item)
                THEN {DepKey(item.owned_team, t) :
                         t \in Range(OutboundRelated(item)) \ {item.owned_team}}
                ELSE {}
    /\ \A k \in Indices(teamDependencies) :
          LET dep == teamDependencies[k]
          IN \/ \E i \in Indices(outboundData) :
                   /\ outboundData[i].owned_team = dep.fromTeam
                   /\ dep.toTeam \in Range(OutboundRelated(outboundData[i]))
             \/ \E i \in Indices(inboundData) :
                   /\ inboundData[i].assignee_team = dep.toTeam
                   /\ dep.fromTeam \in Range(InboundRelated(inboundData[i]))

\* only an inbound record, and the edge it yields points at its owner
C6_Witness ==
    /\ stage = "rendered"
    /\ outboundData = <<>>
    /\ \E i \in Indices(inboundData), k \in Indices(edges) :
          /\ InboundUsed(inboundData[i])
          /\ edges[k].target = inboundData[i].assignee_team
          /\ edges[k].source \in Range(InboundRelated(inboundData[i]))

\* the records the normalizer of the specification keeps: a truthy owner, a
\* related team left after filtering, and a magnitude that is not negative
WellFormedOutbound(item) ==
    OutboundUsed(item) /\ OrZero(item.number_of_dependent_issues) >= 0
WellFormedInbound(item) ==
    InboundUsed(item) /\ OrZero(item.volume_of_work_relied_upon) >= 0

\* C7: a record with a null or empty owner, with no related team left after
\* filtering, or with a negative magnitude contributes to no key and changes no
\* weight: the accumulator is the one of the well-formed records alone.
C7_MalformedDropped ==
    Transformed =>
        dependencyMap = DependencyMapOf(SelectSeq(outboundData, WellFormedOutbound),
                                        SelectSeq(inboundData, WellFormedInbound))

\* C8: the render never raises, whatever the shape of the fetched records.
C8_NeverRaises == raised = FALSE /\ stage # "thrown"

EdgeTeams == {edges[i].source : i \in Indices(edges)} \cup {edges[i].target : i \in Indices(edges)}

\* C9: once the edges are emitted, uniqueTeams holds exactly the teams that are
\* the source or the target of an emitted edge, each of them once.
C9_NodeSetCompleteness ==
    stage = "rendered" =>
        /\ Range(uniqueTeams) = EdgeTeams
        /\ \A i, j \in Indices(uniqueTeams) : uniqueTeams[i] = uniqueTeams[j] => i = j

\* the volume of the inbound records among `items` that are owned by team
RECURSIVE SumVolumeOf(_, _)
SumVolumeOf(items, team) ==
    IF items = <<>> THEN 0
    ELSE (IF Head(items).assignee_team = team
          THEN OrZero(Head(items).volume_of_work_relied_upon)
          ELSE 0)
         + SumVolumeOf(Tail(items), team)

Highlighted == {i \in Indices(initialNodesBeforeLayout) : initialNodesBeforeLayout[i].isTop3}
NodesAhead(i) ==
    {j \in Indices(initialNodesBeforeLayout) :
        \/ initialNodesBeforeLayout[j].connectionCount
              > initialNodesBeforeLayout[i].connectionCount
        \/ /\ initialNodesBeforeLayout[j].connectionCount
                 = initialNodesBeforeLayout[i].connectionCount
           /\ j < i}

\* C11: once the nodes are built, a node is highlighted exactly when fewer than
\* three nodes of the graph are ahead of it by inbound weight (ties by discovery
\* order); so min(3, N) nodes are highlighted, also when every weight is 0.
C11_Top3Highlighting ==
    stage \in {"edges", "rendered"} =>
        /\ \A i \in Indices(initialNodesBeforeLayout) :
              initialNodesBeforeLayout[i].isTop3 <=> Cardinality(NodesAhead(i)) < 3
        /\ Cardinality(Highlighted) =
              IF Len(initialNodesBeforeLayout) < 3 THEN Len(initialNodesBeforeLayout) ELSE 3

\* what one record adds to the directed pair (from, to), and the weight of the
\* pair over both collections
OutboundShare(item, from, to) ==
    IF OutboundUsed(item) /\ item.owned_team = from
    THEN CountPerTeam(Len(OutboundRelated(item)), OrZero(item.number_of_dependent_issues))
            * Occurrences(OutboundRelated(item), to)
    ELSE 0

InboundShare(item, from, to) ==
    IF InboundUsed(item) /\ item.assignee_team = to
    THEN CountPerTeam(Len(InboundRelated(item)), OrZero(item.volume_of_work_relied_upon))
            * Occurrences(InboundRelated(item), from)
    ELSE 0

RECURSIVE OutboundPairWeight(_, _, _)
OutboundPairWeight(items, from, to) ==
    IF items = <<>> THEN 0
    ELSE OutboundShare(Head(items), from, to) + OutboundPairWeight(Tail(items), from, to)

RECURSIVE InboundPairWeight(_, _, _)
InboundPairWeight(items, from, to) ==
    IF items = <<>> THEN 0
    ELSE InboundShare(Head(items), from, to) + InboundPairWeight(Tail(items), from, to)

PairWeight(from, to) ==
    OutboundPairWeight(outboundData, from, to) + InboundPairWeight(inboundData, from, to)

\* the team names of the fetched records
InputTeams ==
    {t \in UNION ({{outboundData[i].owned_team} \cup Range(OutboundRelated(outboundData[i])) :
                      i \in Indices(outboundData)}
                  \cup {{inboundData[i].assignee_team} \cup Range(InboundRelated(inboundData[i])) :
                           i \in Indices(inboundData)}) : Truthy(t)}

\* C13: whatever characters the team names are made of, every directed pair of
\* different teams whose aggregated weight is positive is emitted as exactly one
\* edge with the source, the target and the weight of that pair: no pair is
\* merged with, or hidden by, another pair.
C13_NoKeyCollision ==
    stage = "rendered" =>
        \A from, to \in InputTeams :
            (from # to /\ PairWeight(from, to) > 0)
            => /\ Cardinality(EdgesBetween(from, to)) = 1
               /\ \A k \in EdgesBetween(from, to) : edges[k].label = PairWeight(from, to)

\* the dependencies of the opposite direction of a dependency
ReverseOf(d) ==
    {j \in Indices(teamDependencies) :
        /\ teamDependencies[j].fromTeam = d.toTeam
        /\ teamDependencies[j].toTeam = d.fromTeam}

\* C14: for a pair of teams whose two directions are not both of positive
\* weight, the merger emits exactly one edge between the two teams: the only
\* direction there is, or of two directions the one of positive weight, with
\* its own weight, whichever direction comes first.
C14_SingleDirection ==
    stage = "rendered" =>
        \A i \in Indices(teamDependencies) :
            LET d == teamDependencies[i]
                reversePositive == \E j \in ReverseOf(d) : teamDependencies[j].storyCount > 0
                between == EdgesBetween(d.fromTeam, d.toTeam)
                              \cup EdgesBetween(d.toTeam, d.fromTeam)
            IN ~(d.storyCount > 0 /\ reversePositive)
               => /\ Cardinality(between) = 1
                  /\ \A k \in between :
                        IF ReverseOf(d) = {} \/ d.storyCount > 0
                        THEN /\ edges[k].source = d.fromTeam
                             /\ edges[k].target = d.toTeam
                             /\ edges[k].label = d.storyCount
                        ELSE IF reversePositive
                        THEN /\ edges[k].source = d.toTeam
                             /\ edges[k].target = d.fromTeam
                             /\ \E j \in ReverseOf(d) :
                                   edges[k].label = teamDependencies[j].storyCount
                        ELSE edges[k].label = 0

\* source, target and weight of the emitted edges, without their styling
EdgeContents(list) ==
    [i \in Indices(list) |->
        [source |-> list[i].source, target |-> list[i].target, label |-> list[i].label]]

\* the fetched collections are those of the first graph the page computed
SameInputAsFirstRun ==
    /\ stage = "rendered"
    /\ firstRun.computed
    /\ outboundData = firstRun.outbound
    /\ inboundData = firstRun.inbound

OneFetchAtATime == Len(fetches) <= 1

\* how the call of fetchData that ended last has ended
LastSettled == settled[Len(settled)]

\* C16: the two collections the memos run on are always the two results of one
\* call of fetchData whose requests were both fulfilled, or both empty: empty
\* before any call has ended and after a call one of whose requests failed,
\* whatever the other request of that call had returned.
C16_JoinPoint ==
    /\ settled = <<>> => outboundData = <<>> /\ inboundData = <<>>
    /\ settled # <<>> =>
          IF LastSettled.kind = "fulfilled"
          THEN outboundData = LastSettled.outbound /\ inboundData = LastSettled.inbound
          ELSE outboundData = <<>> /\ inboundData = <<>>

\* a second call is fulfilled with two collections that both differ from those
\* of the call before it, and they are on screen as a graph
C16_Witness ==
    /\ Len(settled) = 2
    /\ settled[1].kind = "fulfilled"
    /\ settled[2].kind = "fulfilled"
    /\ settled[1].outbound # settled[2].outbound
    /\ settled[1].inbound # settled[2].inbound
    /\ settled[1].inbound # <<>>
    /\ outboundData # <<>>
    /\ inboundData # <<>>
    /\ View = "graph"

\* the state of the view the page is in
ViewState ==
    CASE View = "noPI" -> "Idle"
      [] View = "loading" -> "Loading"
      [] View = "error" -> "Error"
      [] View \in {"empty", "graph"} -> "Ready"
      [] View = "crashed" -> "Crashed"

ViewTransitions ==
    {<<"Idle", "Loading">>, <<"Loading", "Ready">>, <<"Loading", "Error">>,
     <<"Ready", "Loading">>, <<"Error", "Loading">>}

\* C17: the view changes its state only along Idle -> Loading -> Ready | Error
\* and from Ready or Error back to Loading; in particular the step that ends
\* Loading, taken when the two requests have settled, leads to Ready or Error.
C17_ViewStateMachine ==
    [][ViewState' # ViewState => <<ViewState, ViewState'>> \in ViewTransitions]_vars

\* C18: a call of fetchData one of whose requests failed leaves the page in the
\* Error view with a non-empty message, both collections empty and so no
\* dependency, node or edge of that or an earlier call, and Retry enabled; Retry
\* fetches the selected PI again, and every start of a fetch clears the error.
C18_FetchFailure ==
    /\ [](/\ (settled # <<>> /\ LastSettled.kind = "rejected" /\ ~loading)
                => View = "error"
          /\ View = "error"
                => /\ error # Null /\ error # EmptyString
                   /\ outboundData = <<>> /\ inboundData = <<>>
                   /\ teamDependencies = <<>> /\ edges = <<>> /\ nodes = <<>>
                   /\ ENABLED Retry)
    /\ [][/\ (View = "error" /\ View' # "error")
                => /\ selectedPI' = selectedPI
                   /\ fetches' = <<[pi |-> selectedPI, outbound |-> Pending,
                                    inbound |-> Pending]>>
          /\ Len(fetches') > Len(fetches) => error' = Null /\ loading']_vars

\* after a call that put a graph on screen, a call fails although its outbound
\* request had returned records
C18_Witness ==
    /\ View = "error"
    /\ Len(settled) = 2
    /\ settled[1].kind = "fulfilled"
    /\ settled[1].outbound # <<>>
    /\ firstRun.computed
    /\ Len(firstRun.edges) > 0
    /\ LastSettled.kind = "rejected"
    /\ LastSettled.outbound # <<>>

\* the displayed nodes without their positions, and without their size styling
Unpositioned(list) ==
    [i \in Indices(list) |-> [list[i] EXCEPT !.position = [x |-> 0, y |-> 0]]]
NodeContents(list) ==
    [i \in Indices(list) |->
        [id |-> list[i].id, connectionCount |-> list[i].connectionCount,
         isTop3 |-> list[i].isTop3]]

\* what a change of the tab leaves alone according to the claim: no fetch, the
\* collections, the view state, the node set, the highlighted set and the
\* content of the edges
TabChangeFrame ==
    /\ View = "graph"
    /\ View' = "graph"
    /\ UNCHANGED <<outboundData, inboundData, fetches, loading, error, selectedPI, piInput,
                   teamDependencies, uniqueTeams, teamConnectionCounts, top3Teams>>
    /\ EdgeContents(edges') = EdgeContents(edges)
    /\ [i \in Indices(nodes') |-> nodes'[i].id] = uniqueTeams
    /\ NodeContents(nodes') = NodeContents(nodes)

\* C19 as claimed: the tab changes only in the graph view, and a change of the
\* tab keeps the frame above and changes nothing of the displayed nodes but
\* their positions.
C19_LayoutToggle ==
    [][activeTab' # activeTab
          => TabChangeFrame /\ Unpositioned(nodes') = Unpositioned(nodes)]_vars

\* C19 as amended: the tab changes only in the graph view, and a change of the
\* tab keeps the frame above: besides the positions and the styling of the
\* edges only the size styling of the nodes (minWidth, fontSize) changes.
C19_LayoutToggleRestyling ==
    [][activeTab' # activeTab => TabChangeFrame]_vars

\* the circular tab is on screen with a graph of three nodes, one of them plain
C19_Witness ==
    /\ View = "graph"
    /\ activeTab = "circular"
    /\ nodes = circularNodes
    /\ Len(nodes) >= 3
    /\ Len(edges) > 0
    /\ \E i \in Indices(nodes) : nodes[i].isTop3

\* a step that is a drag: a node arrives at a dragged position
DragStep == Dragged' \ Dragged # {}

\* C20: a drag changes nothing but positions of displayed nodes: the fetched
\* collections, the aggregation, the edges, the highlighted set, the input and
\* the results of both layouts and the fetch state stay as they are; and no
\* dragged position is ever found in the input or the result of a layout,
\* every node that was not dragged standing where the layout of the tab put it.
C20_ViewLocalRepositioning ==
    /\ [](/\ \A i \in Indices(initialNodesBeforeLayout) :
                initialNodesBeforeLayout[i].position \notin DragPositions
          /\ \A i \in Indices(hierarchicalNodes) :
                hierarchicalNodes[i].position \notin DragPositions
          /\ \A i \in Indices(circularNodes) :
                circularNodes[i].position \notin DragPositions
          /\ View = "graph" =>
                /\ Len(nodes) = Len(LayoutedNodesMemo(activeTab, hierarchicalNodes, circularNodes))
                /\ \A k \in Indices(nodes) \ Dragged :
                      nodes[k] = LayoutedNodesMemo(activeTab, hierarchicalNodes, circularNodes)[k])
    /\ [][DragStep =>
            /\ UNCHANGED <<outboundData, inboundData, dependencyMap, teamDependencies,
                           uniqueTeams, teamConnectionCounts, top3Teams,
                           initialNodesBeforeLayout, edgesForLayout, hierarchicalNodes,
                           circularNodes, edges, fetches, loading, error, selectedPI,
                           activeTab, raised>>
            /\ Unpositioned(nodes') = Unpositioned(nodes)]_vars

\* a node of a graph of three stands where it was dragged to, the others where
\* the layout put them
C20_Witness ==
    /\ View = "graph"
    /\ Len(nodes) >= 3
    /\ Dragged # {}
    /\ nodes # LayoutedNodesMemo(activeTab, hierarchicalNodes, circularNodes)
    /\ \E k \in Indices(nodes) : k \notin Dragged

\* the ids of a node list, in its order
NodeIds(list) == [i \in Indices(list) |-> list[i].id]

HierarchicalLayoutDone ==
    stage \in {"circularLayout", "layoutedNodes", "edges", "rendered"}
CircularLayoutDone == stage \in {"layoutedNodes", "edges", "rendered"}

\* C21: neither layout changes its input: the initial nodes and the layout
\* edges keep their values in every step and every initial node stays at
\* {x: 0, y: 0}; the result of each layout has the ids of the input in the
\* order of the input and the input's data and highlighting, and where the
\* layout has run its nodes are positioned ones.
C21_LayoutPurity ==
    /\ [](/\ \A i \in Indices(initialNodesBeforeLayout) :
                initialNodesBeforeLayout[i].position = [x |-> 0, y |-> 0]
          /\ HierarchicalLayoutDone =>
                /\ NodeIds(hierarchicalNodes) = NodeIds(initialNodesBeforeLayout)
                /\ NodeContents(hierarchicalNodes) = NodeContents(initialNodesBeforeLayout)
                /\ Len(edgesForLayout) > 0 =>
                      \A i \in Indices(hierarchicalNodes) :
                         hierarchicalNodes[i].position # [x |-> 0, y |-> 0]
          /\ CircularLayoutDone =>
                /\ NodeIds(circularNodes) = NodeIds(initialNodesBeforeLayout)
                /\ NodeContents(circularNodes) = NodeContents(initialNodesBeforeLayout)
                /\ \A i \in Indices(circularNodes) :
                      circularNodes[i].position # [x |-> 0, y |-> 0])
    /\ [][UNCHANGED <<initialNodesBeforeLayout, edgesForLayout>>]_vars

\* both layouts have run on four nodes with edges between them
C21_Witness ==
    /\ stage = "rendered"
    /\ Len(initialNodesBeforeLayout) = 4
    /\ Len(edgesForLayout) = 3
    /\ hierarchicalNodes # initialNodesBeforeLayout
    /\ circularNodes # initialNodesBeforeLayout
    /\ circularNodes # hierarchicalNodes

\* where each node of a list stands
PositionOfId(list) == [i \in Indices(list) |-> [id |-> list[i].id, position |-> list[i].position]]
Positions(list) == [i \in Indices(list) |-> list[i].position]

\* C22: the circular layout places a node by the number of nodes and the
\* node's index alone: any other node list of the same length gets the same
\* positions, index by index, whatever its ids, connection counts and
\* highlighting are, and whatever the layout edges of the state are; a list of
\* the same ids in the same order has every node at the same position.
C22_CircularIgnoresEdgesAndWeights ==
    CircularLayoutDone =>
        \A other \in LayoutNodeLists :
            /\ Len(other) = Len(initialNodesBeforeLayout) =>
                  Positions(CircularNodesMemo(other)) = Positions(circularNodes)
            /\ NodeIds(other) = NodeIds(initialNodesBeforeLayout) =>
                  PositionOfId(CircularNodesMemo(other)) = PositionOfId(circularNodes)

\* four nodes of growing connection counts, the last three highlighted, are on
\* the circle, with a star of layout edges in the state
C22_Witness ==
    /\ stage = "rendered"
    /\ Len(circularNodes) = 4
    /\ circularNodes[1].connectionCount < circularNodes[4].connectionCount
    /\ ~circularNodes[1].isTop3
    /\ circularNodes[4].isTop3
    /\ Len(edgesForLayout) = 3
    /\ edgesForLayout[3].source = A
    /\ \E other \in LayoutNodeLists :
          /\ NodeIds(other) = NodeIds(circularNodes)
          /\ other[1].isTop3

\* the centre of the positioned box of 100 x 50, seen from the centre of the
\* layout (600, 400): x + xRoot3 * sqrt(3) to the right and y + yRoot3 * sqrt(3)
\* down
FromCentre(position) ==
    [x |-> position.x + 50 - 600, xRoot3 |-> position.xRoot3,
     y |-> position.y + 25 - 400, yRoot3 |-> position.yRoot3]

\* the square of the distance from the centre, as a + b * sqrt(3)
DistanceSquared(v) ==
    [int |-> v.x * v.x + 3 * v.xRoot3 * v.xRoot3 + v.y * v.y + 3 * v.yRoot3 * v.yRoot3,
     root3 |-> 2 * v.x * v.xRoot3 + 2 * v.y * v.yRoot3]

\* twice the cosine and the sine of a full turn divided by n
GapCos(n) ==
    CASE n = 1 -> [int |-> 2, root3 |-> 0]
      [] n = 2 -> [int |-> 0 - 2, root3 |-> 0]
      [] n = 3 -> [int |-> 0 - 1, root3 |-> 0]
      [] n = 4 -> [int |-> 0, root3 |-> 0]
      [] n = 6 -> [int |-> 1, root3 |-> 0]
GapSin(n) ==
    CASE n \in {1, 2} -> [int |-> 0, root3 |-> 0]
      [] n \in {3, 6} -> [int |-> 0, root3 |-> 1]
      [] n = 4 -> [int |-> 2, root3 |-> 0]

\* twice the vector v turned by a full turn divided by n
TwiceTurned(v, n) ==
    LET c == GapCos(n)
        s == GapSin(n)
    IN [x |-> (v.x * c.int + 3 * v.xRoot3 * c.root3) - (v.y * s.int + 3 * v.yRoot3 * s.root3),
        xRoot3 |-> (v.x * c.root3 + v.xRoot3 * c.int) - (v.y * s.root3 + v.yRoot3 * s.int),
        y |-> (v.x * s.int + 3 * v.xRoot3 * s.root3) + (v.y * c.int + 3 * v.yRoot3 * c.root3),
        yRoot3 |-> (v.x * s.root3 + v.xRoot3 * s.int) + (v.y * c.root3 + v.yRoot3 * c.int)]

Twice(v) == [x |-> 2 * v.x, xRoot3 |-> 2 * v.xRoot3, y |-> 2 * v.y, yRoot3 |-> 2 * v.yRoot3]

\* C23: the centre of every node of the circular layout is at distance 280 from
\* (600, 400); node 0 is straight above the centre, and every node, the last
\* one before node 0 included, is the node before it turned by a full turn
\* divided by the number of nodes; no nodes give the empty list.
C23_CircularGeometry ==
    CircularLayoutDone =>
        LET n == Len(circularNodes)
            at(i) == FromCentre(circularNodes[i].position)
        IN /\ n = Len(initialNodesBeforeLayout)
           /\ n = 0 => circularNodes = <<>>
           /\ n > 0 => at(1) = [x |-> 0, xRoot3 |-> 0, y |-> 0 - 280, yRoot3 |-> 0]
           /\ \A i \in 1..n :
                 /\ DistanceSquared(at(i)) = [int |-> 280 * 280, root3 |-> 0]
                 /\ Twice(at((i % n) + 1)) = TwiceTurned(at(i), n)

\* six nodes are on the circle, the second one to the right of the centre by
\* 140 * sqrt(3) and above it by 140
C23_Witness ==
    /\ stage = "rendered"
    /\ Len(circularNodes) = 6
    /\ FromCentre(circularNodes[2].position) =
          [x |-> 0, xRoot3 |-> 140, y |-> 0 - 140, yRoot3 |-> 0]

\* the call of fetchData that ended last was fulfilled, none is under way, and
\* the render of its two collections produced no node
FetchedNoNodes ==
    /\ settled # <<>>
    /\ LastSettled.kind = "fulfilled"
    /\ fetches = <<>>
    /\ ~raised
    /\ Len(uniqueTeams) = 0

\* C25: after a fulfilled call whose collections give no node, both empty or
\* with records that are all dropped, the empty-state branch is on screen,
\* error is null and there is nothing laid out or drawn; and the view enters
\* the error branch only in the step in which a call of fetchData is rejected.
C25_EmptyGraphIsNotAnError ==
    /\ [](FetchedNoNodes =>
             /\ View = "empty"
             /\ error = Null
             /\ teamDependencies = <<>>
             /\ edgesForLayout = <<>>
             /\ hierarchicalNodes = <<>>
             /\ circularNodes = <<>>
             /\ nodes = <<>>
             /\ edges = <<>>)
    /\ [][(View' = "error" /\ View # "error")
             => /\ Len(fetches') < Len(fetches)
                /\ settled' # <<>>
                /\ settled'[Len(settled')].kind = "rejected"]_vars

\* the empty state is on screen after a call that returned a record, which was
\* dropped, and after a call before it had put a graph on screen
C25_Witness ==
    /\ FetchedNoNodes
    /\ View = "empty"
    /\ inboundData # <<>>
    /\ outboundData = <<>>
    /\ Len(settled) = 2
    /\ settled[1].kind = "fulfilled"
    /\ settled[1].outbound # <<>>

\* clamp(3 + weight * 0.5, 3, 8), in half pixels
ClampedWidthTimes2(weight) ==
    LET width == 6 + weight
    IN IF width < 6 THEN 6 ELSE IF width > 16 THEN 16 ELSE width

EdgesDrawn == stage = "rendered"

C27_UniqueEdgeIds ==
    stage = "rendered" =>
        \A i, j \in Indices(edges) :
            (edges[i].source # edges[j].source \/ edges[i].target # edges[j].target)
               => edges[i].id # edges[j].id

\* C28: at most one call of fetchData is under way; while one is, loading is
\* true and the page offers neither the PI input, nor Apply, nor Retry; and a
\* call starts only when none is under way.
C28_AtMostOneFetch ==
    /\ [](/\ Len(fetches) <= 1
          /\ Len(fetches) = 1 =>
                /\ loading
                /\ View = "loading"
                /\ ~ENABLED SetPiInput
                /\ ~ENABLED HandleApplyFilter
                /\ ~ENABLED Retry)
    /\ [][Len(fetches') > Len(fetches) => fetches = <<>> /\ ~loading]_vars

\* a second call, for another PI, waits for its inbound request while the
\* outbound one is answered
C28_Witness ==
    /\ Len(fetches) = 1
    /\ loading
    /\ settled # <<>>
    /\ fetches[1].outbound.state # "pending"
    /\ fetches[1].inbound.state = "pending"
    /\ fetches[1].pi = Q

\* a record with another magnitude
OutboundWithMagnitude(item, m) == [item EXCEPT !.number_of_dependent_issues = NumberValue(m)]
InboundWithMagnitude(item, m) == [item EXCEPT !.volume_of_work_relied_upon = NumberValue(m)]

\* C29: what a record contributes to the key of a related team is never less
\* than what the same record with a smaller magnitude, 0 included, contributes.
C29_ShareMonotone ==
    Transformed =>
        /\ \A i \in Indices(outboundData) :
              LET item == outboundData[i]
                  m == OrZero(item.number_of_dependent_issues)
              IN (OutboundUsed(item) /\ m >= 0) =>
                    \A t \in Range(OutboundRelated(item)), smaller \in 0..m :
                        WeightOf(OutboundAlone(OutboundWithMagnitude(item, smaller)),
                                 DepKey(item.owned_team, t))
                           <= WeightOf(OutboundAlone(item), DepKey(item.owned_team, t))
        /\ \A i \in Indices(inboundData) :
              LET item == inboundData[i]
                  m == OrZero(item.volume_of_work_relied_upon)
              IN (InboundUsed(item) /\ m >= 0) =>
                    \A t \in Range(InboundRelated(item)), smaller \in 0..m :
                        WeightOf(InboundAlone(InboundWithMagnitude(item, smaller)),
                                 DepKey(t, item.assignee_team))
                           <= WeightOf(InboundAlone(item), DepKey(t, item.assignee_team))

\* a PI name a fetch may be issued with: it has a character that is no space
ProperPI(pi) == pi # Null /\ \E k \in 1..Len(pi) : pi[k] # " "

\* C30: while error is not null the error branch is on screen, the PI input
\* and Apply cannot be used, and no step changes selectedPI or piInput; the only
\* step out of it is Retry, which issues a call for selectedPI; and every call
\* of fetchData, like selectedPI once it is set, has a proper PI name.
C30_PIFrozenInError ==
    /\ [](/\ error # Null =>
                /\ View = "error"
                /\ ~FiltersShown
                /\ ~ENABLED SetPiInput
                /\ ~ENABLED HandleApplyFilter
                /\ ENABLED Retry
                /\ ProperPI(selectedPI)
          /\ \A i \in Indices(fetches) : ProperPI(fetches[i].pi)
          /\ selectedPI # EmptyString => ProperPI(selectedPI))
    /\ [][/\ error # Null =>
                /\ selectedPI' = selectedPI
                /\ piInput' = piInput
                /\ fetches' = <<[pi |-> selectedPI, outbound |-> Pending,
                                 inbound |-> Pending]>>
          /\ Len(fetches') > Len(fetches) =>
                /\ fetches'[Len(fetches')].pi = selectedPI'
                /\ ProperPI(selectedPI')]_vars

\* the error branch is on screen for the PI Q, which was typed after a space,
\* after an earlier call for P
C30_Witness ==
    /\ View = "error"
    /\ error # Null
    /\ selectedPI = Q
    /\ piInput = Space \o Q
    /\ Len(settled) = 2

====
